---- MODULE Spec2Model ----
(***************************************************************************)
(* Model of the satellite-coordinates toolkit:                             *)
(*   src/01_coordinate_collector.py  (CoordinateCollector, the parser and  *)
(*                                    the interactive session)             *)
(*   src/02_mass_capture.py          (MassImageCapture, the capture run)   *)
(* Both scripts share one file on disk, coordinates.json.                  *)
(*                                                                         *)
(* Text (user input, category tokens, descriptions) is a sequence of       *)
(* one-character strings.  A float is an exact rational, kept as an        *)
(* integer count of 1/1800000 degree (the least unit that holds both an    *)
(* arc-second, 1/3600, and a fifth decimal, 1/100000).                     *)
(***************************************************************************)
EXTENDS Integers, Sequences, FiniteSets, TLC

VARIABLES
    file,          \* content of scripts_automatizadores/coordinates.json
    coordinates,   \* CoordinateCollector.coordinates (self.coordinates)
    cpc,           \* where the collector script is: "menu" or "session"
    outcome,       \* the last call made and what its caller got back
    kphase,        \* where the capture script is: idle, pools, no_pools, update,
                   \* write, report
    kcoords,       \* the capture script's local `coordinates`
    ki,            \* index of the next record of the current loop
    kcount,        \* total_pools_captured / total_no_pools_captured
    requests,      \* the image requests issued by the current run, in order
    kresult,       \* what the last mass_capture_all gave its caller
    user_input,    \* the line typed at the "> " prompt
    typed,         \* the answers typed at the two follow-up prompts
    result         \* what parse_coordinate_input returned

vars == <<file, coordinates, cpc, outcome, kphase, kcoords, ki, kcount,
          requests, kresult, user_input, typed, result>>

collectorVars == <<coordinates, cpc, outcome>>
captureVars == <<kphase, kcoords, ki, kcount, requests, kresult>>
parserVars == <<user_input, typed, result>>

(***************************************************************************)
(* Bounds of the model.                                                    *)
(***************************************************************************)
MaxRecords == 2

(***************************************************************************)
(* Text helpers.                                                           *)
(***************************************************************************)
UpperCase == <<"A","B","C","D","E","F","G","H","I","J","K","L","M",
               "N","O","P","Q","R","S","T","U","V","W","X","Y","Z">>
LowerCase == <<"a","b","c","d","e","f","g","h","i","j","k","l","m",
               "n","o","p","q","r","s","t","u","v","w","x","y","z">>

LowerChar(c) ==
    IF \E i \in DOMAIN UpperCase : UpperCase[i] = c
    THEN LowerCase[CHOOSE i \in DOMAIN UpperCase : UpperCase[i] = c]
    ELSE c

\* str.lower()
lower(s) == [i \in DOMAIN s |-> LowerChar(s[i])]

UnitsPerDegree == 3600 * 500

Digits == <<"0","1","2","3","4","5","6","7","8","9">>
DigitSet == {Digits[i] : i \in DOMAIN Digits}
DigitVal(c) == (CHOOSE i \in DOMAIN Digits : Digits[i] = c) - 1

Contains(s, c) == \E i \in DOMAIN s : s[i] = c

\* index of the first c in s (s contains c)
IndexOf(s, c) == CHOOSE i \in DOMAIN s : s[i] = c /\ \A j \in 1..(i - 1) : s[j] # c

\* str.split(sep): the pieces between the separators, empty ones kept
RECURSIVE SplitOn(_, _)
SplitOn(s, c) ==
    IF ~Contains(s, c) THEN <<s>>
    ELSE <<SubSeq(s, 1, IndexOf(s, c) - 1)>>
         \o SplitOn(SubSeq(s, IndexOf(s, c) + 1, Len(s)), c)

IsToken(t) == t # <<>>

\* str.split(): the pieces between runs of blanks, none empty
split(s) == SelectSeq(SplitOn(s, " "), IsToken)

\* str.strip()
strip(s) ==
    IF \A i \in DOMAIN s : s[i] = " " THEN <<>>
    ELSE LET a == CHOOSE i \in DOMAIN s : s[i] # " " /\ \A j \in 1..(i - 1) : s[j] = " "
             b == CHOOSE i \in DOMAIN s : s[i] # " " /\ \A j \in (i + 1)..Len(s) : s[j] = " "
         IN  SubSeq(s, a, b)

AllDigits(s) == \A i \in DOMAIN s : s[i] \in DigitSet

\* int() of a run of digits (0 for the empty run)
RECURSIVE DigitsToInt(_)
DigitsToInt(s) ==
    IF s = <<>> THEN 0
    ELSE 10 * DigitsToInt(SubSeq(s, 1, Len(s) - 1)) + DigitVal(s[Len(s)])

\* the decimal digits of n >= 0
RECURSIVE IntToDigits(_)
IntToDigits(n) ==
    IF n < 10 THEN <<Digits[n + 1]>>
    ELSE IntToDigits(n \div 10) \o <<Digits[(n % 10) + 1]>>

RECURSIVE Pow10(_)
Pow10(k) == IF k = 0 THEN 1 ELSE 10 * Pow10(k - 1)

\* s with zeros in front, up to width w
RECURSIVE ZeroPad(_, _)
ZeroPad(s, w) == IF Len(s) >= w THEN s ELSE ZeroPad(<<"0">> \o s, w)

\* s without its trailing zeros, one digit kept
RECURSIVE StripZeros(_)
StripZeros(s) ==
    IF Len(s) > 1 /\ s[Len(s)] = "0" THEN StripZeros(SubSeq(s, 1, Len(s) - 1)) ELSE s

Abs(v) == IF v < 0 THEN 0 - v ELSE v
SignText(v) == IF v < 0 THEN <<"-">> ELSE <<>>

\* float(text) for the literals [+-]digits[.digits] with at most five
\* decimals (more do not fit the unit); anything else is a ValueError.
float(text) ==
    LET s == strip(text)
        neg == s # <<>> /\ s[1] = "-"
        body == IF s # <<>> /\ s[1] \in {"-", "+"} THEN SubSeq(s, 2, Len(s)) ELSE s
        ip == IF Contains(body, ".") THEN SubSeq(body, 1, IndexOf(body, ".") - 1) ELSE body
        fp == IF Contains(body, ".")
              THEN SubSeq(body, IndexOf(body, ".") + 1, Len(body)) ELSE <<>>
        mag == DigitsToInt(ip) * UnitsPerDegree
               + DigitsToInt(fp) * (UnitsPerDegree \div Pow10(Len(fp)))
    IN  IF AllDigits(ip) /\ AllDigits(fp) /\ Len(ip) + Len(fp) > 0 /\ Len(fp) <= 5
        THEN [ok |-> TRUE, value |-> IF neg THEN 0 - mag ELSE mag]
        ELSE [ok |-> FALSE]

\* f"{v:.4f}": v rounded to the nearest 1/10000 (180 units), four decimals
\* always written.  The inputs of the model hold no exact tie.
Fmt4(v) ==
    LET q == (Abs(v) + 90) \div 180 IN
    SignText(v) \o IntToDigits(q \div 10000) \o <<".">>
        \o ZeroPad(IntToDigits(q % 10000), 4)

\* f"{v}", the repr of a float read from a literal of at most five
\* decimals: the shortest text that reads back, at least one decimal.
Repr(v) ==
    LET n == Abs(v) \div 18 IN
    SignText(v) \o IntToDigits(n \div 100000) \o <<".">>
        \o StripZeros(ZeroPad(IntToDigits(n % 100000), 5))

(***************************************************************************)
(* The store and its JSON form.                                            *)
(***************************************************************************)
Timestamp == "YYYY-MM-DD HH:MM:SS"

\* CoordinateCollector.__init__: the store before load_existing
EmptyStore ==
    [pools |-> <<>>, no_pools |-> <<>>,
     metadata |-> [total_pools |-> 0, total_no_pools |-> 0, last_updated |-> ""]]

HasKey(d, k) == k \in DOMAIN d

\* json.dump of one Python value of the store: True/False become the JSON
\* literals true/false, a list keeps its order, a dict keeps its keys.
JsonBool(b) == IF b THEN "true" ELSE "false"

DumpRecord(r) ==
    [k \in DOMAIN r |-> IF k = "captured" THEN JsonBool(r[k]) ELSE r[k]]

DumpList(l) == [i \in DOMAIN l |-> DumpRecord(l[i])]

DumpMetadata(m) ==
    [k \in DOMAIN m |-> IF k = "capture_completed" THEN JsonBool(m[k]) ELSE m[k]]

json_dump(obj) ==
    [k \in DOMAIN obj |->
        IF k = "metadata" THEN DumpMetadata(obj[k]) ELSE DumpList(obj[k])]

\* json.load: the inverse reading of the JSON literals
PyBool(t) == t = "true"

\* Mutant: the load takes every record as not yet captured.
LoadRecord_Reset(j) ==
    [k \in DOMAIN j |-> IF k = "captured" THEN FALSE ELSE j[k]]

LoadRecord(j) ==
    [k \in DOMAIN j |-> IF k = "captured" THEN PyBool(j[k]) ELSE j[k]]

LoadList(l) == [i \in DOMAIN l |-> LoadRecord(l[i])]

\* Mutant: the load keeps only the metadata keys the collector writes.
LoadMetadata_KnownKeys(m) ==
    [k \in DOMAIN m \cap {"total_pools", "total_no_pools", "last_updated"} |-> m[k]]

LoadMetadata(m) ==
    [k \in DOMAIN m |-> IF k = "capture_completed" THEN PyBool(m[k]) ELSE m[k]]

json_load(doc) ==
    [k \in DOMAIN doc |->
        IF k = "metadata" THEN LoadMetadata(doc[k]) ELSE LoadList(doc[k])]

\* The file: absent, one that open() refuses (a directory of that name, no
\* permission), one that is not JSON, or a JSON document.
Absent == [kind |-> "absent"]
Unreadable == [kind |-> "unreadable"]
Garbage == [kind |-> "garbage"]
JsonFile(doc) == [kind |-> "json", doc |-> doc]

(***************************************************************************)
(* CoordinateCollector.                                                    *)
(***************************************************************************)
\* load_existing: the store it leaves in self.coordinates, starting from
\* the store __init__ built.
LoadedStore(f) ==
    IF f.kind = "absent" THEN EmptyStore          \* os.path.exists is false
    ELSE IF f.kind # "json" THEN EmptyStore       \* open or json.load raised
    ELSE json_load(f.doc)     \* assigned before the print that may raise KeyError

\* whether load_existing's try block raised (and the except printed)
LoadRaised(f) ==
    /\ f.kind # "absent"
    /\ \/ f.kind # "json"
       \/ ~HasKey(f.doc, "pools")
       \/ ~HasKey(f.doc, "no_pools")

\* update_metadata
update_metadata(c) ==
    [c EXCEPT !.metadata =
        [k \in DOMAIN c.metadata \cup {"total_pools", "total_no_pools", "last_updated"} |->
            CASE k = "total_pools" -> Len(c.pools)
              [] k = "total_no_pools" -> Len(c.no_pools)
              [] k = "last_updated" -> Timestamp
              [] OTHER -> c.metadata[k]]]

CoordData(lat, lon, description) ==
    [lat |-> lat, lon |-> lon, description |-> description, captured |-> FALSE]

PoolTokens == {<<"p","o","o","l">>, <<"p","i","s","c","i","n","a">>, <<"p">>}
NoPoolTokens == {<<"n","o","_","p","o","o","l">>,
                 <<"n","o","_","p","i","s","c","i","n","a">>, <<"n">>}

\* Mutant: the token is matched by its prefix instead of as a whole.
TargetList_Prefix(coord_type) ==
    LET t == lower(coord_type) IN
    IF \E p \in PoolTokens : Len(t) >= Len(p) /\ SubSeq(t, 1, Len(p)) = p THEN "pools"
    ELSE IF \E n \in NoPoolTokens : Len(t) >= Len(n) /\ SubSeq(t, 1, Len(n)) = n
         THEN "no_pools"
    ELSE ""

\* the list add_coordinate appends to, "" when the token is not valid
TargetList(coord_type) ==
    IF lower(coord_type) \in PoolTokens THEN "pools"
    ELSE IF lower(coord_type) \in NoPoolTokens THEN "no_pools"
    ELSE ""

\* A collector session is under way from CoordinateCollector() until the
\* save of 'fin' has run; a capture run from the entry of mass_capture_all
\* until update_capture_status has returned.
BothActive ==
    /\ cpc = "session"
    /\ kphase \in {"pools", "no_pools", "update", "write"}

\* A call as its caller sees it: ret is the value returned ("True",
\* "False", "None") or the exception that reached the caller ("KeyError",
\* "OSError"); failed is whether the call printed its error message; wrote
\* is whether the call replaced the file's content with its store; arg is
\* the category token of an add_coordinate call; prev is the call made
\* before this one; overlap is whether, at some moment before this call
\* returned, a collector session and a capture run were under way together.
Call(name, ret, failed, wrote, arg) ==
    [call |-> name, ret |-> ret, failed |-> failed, wrote |-> wrote, arg |-> arg,
     prev |-> [call |-> outcome.call, wrote |-> outcome.wrote],
     overlap |-> outcome.overlap \/ BothActive]

NoCall ==
    [call |-> "none", ret |-> "None", failed |-> FALSE, wrote |-> FALSE, arg |-> <<>>,
     prev |-> [call |-> "none", wrote |-> FALSE], overlap |-> FALSE]

\* add_coordinate: the store afterwards and what the caller gets.
\* A store loaded from a document that lacks a key raises KeyError at the
\* first subscript of the missing key (after the append, for "metadata").
AddResult(c, lat, lon, coord_type, description) ==
    LET t == TargetList(coord_type) IN
    IF t = "" THEN [store |-> c, ret |-> "False"]
    ELSE IF ~HasKey(c, t) THEN [store |-> c, ret |-> "KeyError"]
    ELSE LET appended == [c EXCEPT ![t] = Append(c[t], CoordData(lat, lon, description))] IN
         IF ~HasKey(c, "metadata") \/ ~HasKey(c, "pools") \/ ~HasKey(c, "no_pools")
         THEN [store |-> appended, ret |-> "KeyError"]
         ELSE [store |-> update_metadata(appended), ret |-> "True"]

NumRecords(c) ==
    (IF HasKey(c, "pools") THEN Len(c.pools) ELSE 0)
    + (IF HasKey(c, "no_pools") THEN Len(c.no_pools) ELSE 0)

\* save_coordinates: what is on disk afterwards.  fault is what the
\* environment does to the write: "none", "open" (open(..., 'w') raises and
\* the file is untouched) or "dump" (the file was truncated by open and the
\* write stops part-way).
SavedFile(f, c, fault) ==
    CASE f.kind = "unreadable" -> f
      [] fault = "none" -> JsonFile(json_dump(c))
      [] fault = "open" -> f
      [] OTHER -> Garbage

\* whether that write put the store on disk
Wrote(f, fault) == f.kind # "unreadable" /\ fault = "none"

\* save_coordinates returns nothing on either path: the except clause only prints
SaveReturn(fault) == "None"

\* Mutant: the error path starts over from an empty store.
StoreAfterSave_Reset(c, fault) == IF fault = "none" THEN c ELSE EmptyStore

\* save_coordinates assigns nothing to self.coordinates on either path
StoreAfterSave(c, fault) == c

Faults == {"none", "open", "dump"}

(***************************************************************************)
(* The coordinate parser.                                                  *)
(***************************************************************************)
\* index after the run of digits of s that starts at i
EndOfDigits(s, i) ==
    IF \E j \in i..Len(s) : s[j] \notin DigitSet
    THEN CHOOSE j \in i..Len(s) : s[j] \notin DigitSet /\ \A k \in i..(j - 1) : s[k] \in DigitSet
    ELSE Len(s) + 1

\* re.match(r"(\d+)deg(\d+)'(\d+)\"([dirs])", tok): anchored at the start of
\* the token only; what follows the hemisphere letter is not looked at.
DmsMatch(tok, dirs) ==
    LET e1 == EndOfDigits(tok, 1)
        e2 == EndOfDigits(tok, e1 + 1)
        e3 == EndOfDigits(tok, e2 + 1)
    IN  IF  /\ e1 > 1 /\ e1 <= Len(tok) /\ tok[e1] = "deg"
            /\ e2 > e1 + 1 /\ e2 <= Len(tok) /\ tok[e2] = "'"
            /\ e3 > e2 + 1 /\ e3 <= Len(tok) /\ tok[e3] = "\""
            /\ e3 + 1 <= Len(tok) /\ tok[e3 + 1] \in dirs
        THEN [ok |-> TRUE,
              deg |-> DigitsToInt(SubSeq(tok, 1, e1 - 1)),
              min |-> DigitsToInt(SubSeq(tok, e1 + 1, e2 - 1)),
              sec |-> DigitsToInt(SubSeq(tok, e2 + 1, e3 - 1)),
              dir |-> tok[e3 + 1]]
        ELSE [ok |-> FALSE]

\* Mutant: the seconds are divided by 60, like the minutes.
DmsDecimal_SecondsAsMinutes(m, negative) ==
    LET v == m.deg * UnitsPerDegree + m.min * (UnitsPerDegree \div 60)
             + m.sec * (UnitsPerDegree \div 60)
    IN  IF m.dir = negative THEN 0 - v ELSE v

\* deg + (min / 60) + (sec / 3600), negated for the hemisphere `negative`
DmsDecimal(m, negative) ==
    LET v == m.deg * UnitsPerDegree + m.min * (UnitsPerDegree \div 60)
             + m.sec * (UnitsPerDegree \div 3600)
    IN  IF m.dir = negative THEN 0 - v ELSE v

\* convert_dms_to_decimal: [ok |-> FALSE] is its None
convert_dms_to_decimal(coord_string) ==
    LET parts == split(coord_string) IN
    IF Len(parts) < 1 THEN [ok |-> FALSE]                       \* parts[0]: IndexError
    ELSE LET lat_match == DmsMatch(parts[1], {"N", "S"}) IN
         IF ~lat_match.ok THEN [ok |-> FALSE]                   \* ValueError
         ELSE IF Len(parts) < 2 THEN [ok |-> FALSE]             \* parts[1]: IndexError
         ELSE LET lon_match == DmsMatch(parts[2], {"E", "W"}) IN
              IF ~lon_match.ok THEN [ok |-> FALSE]              \* ValueError
              ELSE [ok |-> TRUE, lat |-> DmsDecimal(lat_match, "S"),
                    lon |-> DmsDecimal(lon_match, "W")]

CoordPrefix == <<"C","o","o","r","d","_">>

\* f"Coord_{lat:.4f}_{lon:.4f}"
RoundedDescription(lat, lon) == CoordPrefix \o Fmt4(lat) \o <<"_">> \o Fmt4(lon)

\* f"Coord_{lat}_{lon}"
PlainDescription(lat, lon) == CoordPrefix \o Repr(lat) \o <<"_">> \o Repr(lon)

Parsed(lat, lon, coord_type, description) ==
    [ok |-> TRUE, lat |-> lat, lon |-> lon, coord_type |-> coord_type,
     description |-> description]

NoInput == [ok |-> FALSE]

\* the two follow-up prompts (lines 98-104 and 123-129)
Prompted(lat, lon, answers) ==
    Parsed(lat, lon, strip(answers.coord_type),
           IF strip(answers.description) = <<>>
           THEN RoundedDescription(lat, lon)
           ELSE strip(answers.description))

IsDmsInput(text) == Contains(text, "deg") /\ Contains(text, "'") /\ Contains(text, "\"")

\* parse_coordinate_input: NoInput is its None
parse_coordinate_input(text, answers) ==
    IF IsDmsInput(text)
    THEN LET coords == convert_dms_to_decimal(text) IN
         IF coords.ok THEN Prompted(coords.lat, coords.lon, answers) ELSE NoInput
    ELSE LET parts == SplitOn(text, ",") IN
         IF Len(parts) >= 3
         THEN LET lat == float(parts[1])
                  lon == float(parts[2])
              IN  IF ~lat.ok \/ ~lon.ok THEN NoInput           \* ValueError
                  ELSE Parsed(lat.value, lon.value, strip(parts[3]),
                              IF Len(parts) > 3 THEN strip(parts[4])
                              ELSE PlainDescription(lat.value, lon.value))
         ELSE IF Len(parts) = 2
         THEN LET lat == float(parts[1])
                  lon == float(parts[2])
              IN  IF ~lat.ok \/ ~lon.ok THEN NoInput           \* ValueError
                  ELSE Prompted(lat.value, lon.value, answers)
         ELSE NoInput

\* Inputs of the store-level specification.
StoreInputs ==
    { [lat |-> 191738 * 180, lon |-> (0 - 961342) * 180, description |-> <<"A">>],
      [lat |-> 191886 * 180, lon |-> (0 - 961256) * 180, description |-> <<"B">>] }
CoordTypes == {<<"p","o","o","l">>, <<"P">>, <<"N","o","_","P","i","s","c","i","n","a">>,
               <<"n">>, <<"c","a","s","t","l","e">>, <<"p","o","o","l","s">>, <<>>}

\* interactive_collector: CoordinateCollector() and its load_existing
StartSession ==
    /\ cpc = "menu"
    /\ coordinates' = LoadedStore(file)
    /\ outcome' = Call("load_existing", "None", LoadRaised(file), FALSE, <<>>)
    /\ cpc' = "session"
    /\ UNCHANGED <<file, captureVars, parserVars>>

\* collector.add_coordinate(lat, lon, coord_type, description); a KeyError
\* is not caught by interactive_collector and ends the script.
AddCoordinate ==
    /\ cpc = "session"
    /\ \E inp \in StoreInputs, coord_type \in CoordTypes :
        LET r == AddResult(coordinates, inp.lat, inp.lon, coord_type, inp.description) IN
        /\ TargetList(coord_type) = "" \/ NumRecords(coordinates) < MaxRecords
        /\ coordinates' = r.store
        /\ outcome' = Call("add_coordinate", r.ret, r.ret = "False", FALSE, coord_type)
        /\ cpc' = IF r.ret = "KeyError" THEN "menu" ELSE "session"
    /\ UNCHANGED <<file, captureVars, parserVars>>

\* save_coordinates as called at `after`: "session" for 'guardar',
\* "completed" for 'fin' (the loop breaks, the save runs and
\* "Recoleccion completada" is printed).
save_coordinates(after) ==
    /\ cpc = "session"
    /\ \E fault \in Faults :
        /\ file' = SavedFile(file, coordinates, fault)
        /\ coordinates' = StoreAfterSave(coordinates, fault)
        /\ outcome' = Call("save_coordinates", SaveReturn(fault),
                           ~Wrote(file, fault), Wrote(file, fault), <<>>)
    /\ cpc' = after
    /\ UNCHANGED <<captureVars, parserVars>>

Guardar == save_coordinates("session")

Fin == save_coordinates("completed")

\* interactive_collector returns to the menu; its collector object goes
\* with its frame.
EndSession ==
    /\ cpc = "completed"
    /\ cpc' = "menu"
    /\ coordinates' = EmptyStore
    /\ outcome' = Call("interactive_collector", "None", FALSE, FALSE, <<>>)
    /\ UNCHANGED <<file, captureVars, parserVars>>

(***************************************************************************)
(* MassImageCapture.                                                       *)
(***************************************************************************)
NoResult == [kind |-> "none"]
Returned(dict) == [kind |-> "return", value |-> dict]

\* load_coordinates: a missing, unreadable or unparsable file gives two
\* empty lists; any JSON document is returned as it is.
load_coordinates(f) ==
    IF f.kind # "json"
    THEN [pools |-> <<>>, no_pools |-> <<>>]
    ELSE json_load(f.doc)

\* mass_capture_all up to its first loop (lines 107-119): "KeyError" when a
\* subscript of the loaded document raises, "empty" for the early return,
\* "run" otherwise.
CaptureEntry(c) ==
    IF ~HasKey(c, "pools") THEN "KeyError"
    ELSE IF c.pools = <<>> /\ ~HasKey(c, "no_pools") THEN "KeyError"
    ELSE IF c.pools = <<>> /\ c.no_pools = <<>> THEN "empty"
    ELSE IF ~HasKey(c, "no_pools") THEN "KeyError"
    ELSE "run"

ZeroCount == [pools |-> 0, no_pools |-> 0]
NoCoords == [pools |-> <<>>, no_pools |-> <<>>]

\* The loops of mass_capture_all: where control is once record i of list
\* `phase` has been handled (i = 0: before the first loop).  An empty list's
\* loop body never runs.
AfterRecord(c, phase, i) ==
    IF phase = "pools" /\ i < Len(c.pools) THEN [phase |-> "pools", i |-> i + 1]
    ELSE IF phase = "pools" /\ Len(c.no_pools) > 0 THEN [phase |-> "no_pools", i |-> 1]
    ELSE IF phase = "no_pools" /\ i < Len(c.no_pools) THEN [phase |-> "no_pools", i |-> i + 1]
    ELSE [phase |-> "update", i |-> 1]

\* main, option 2 confirmed: mass_capture_all is entered.  An exception it
\* raises is caught nowhere and ends the script.
StartCapture ==
    /\ kphase = "idle"
    /\ LET c == load_coordinates(file)
           entry == CaptureEntry(c)
       IN  /\ kphase' = CASE entry = "run" -> AfterRecord(c, "pools", 0).phase
                          [] entry = "empty" -> "report"
                          [] OTHER -> "idle"
           /\ kcoords' = IF entry = "run" THEN c ELSE NoCoords
           /\ kresult' = IF entry = "empty" THEN Returned(ZeroCount) ELSE NoResult
           /\ outcome' = Call("mass_capture_all",
                              IF entry = "KeyError" THEN "KeyError" ELSE "None",
                              entry # "run", FALSE, <<>>)
    /\ ki' = 1
    /\ kcount' = ZeroCount
    /\ requests' = <<>>
    /\ UNCHANGED <<file, coordinates, cpc, parserVars>>

\* What one capture_single_coordinate call can come to: the image is fetched,
\* saved and moved ("filed"); the service answers with a status other than
\* 200 ("status"); requests, PIL or the save raise inside
\* capture_single_image, which catches it ("caught"); os.rename raises, which
\* nothing catches ("rename").
CaptureOutcomes == {"filed", "status", "caught", "rename"}

\* capture_single_coordinate's return value
CapturedCount(o) == IF o = "filed" THEN 1 ELSE 0

\* one iteration of the loop over coordinates[kphase]
CaptureRecord ==
    /\ kphase \in {"pools", "no_pools"}
    /\ ki <= Len(kcoords[kphase])
    /\ \E o \in CaptureOutcomes :
        IF o = "rename"
        THEN /\ kphase' = "idle"
             /\ outcome' = Call("mass_capture_all", "OSError", TRUE, FALSE, <<>>)
             /\ kcoords' = NoCoords
             /\ ki' = 1
             /\ kcount' = ZeroCount
             /\ requests' = <<>>
        ELSE /\ requests' = Append(requests, [list |-> kphase, index |-> ki])
             /\ kcount' = [kcount EXCEPT ![kphase] = @ + CapturedCount(o)]
             /\ kphase' = AfterRecord(kcoords, kphase, ki).phase
             /\ ki' = AfterRecord(kcoords, kphase, ki).i
             /\ outcome' = Call("capture_single_coordinate",
                                IF o = "filed" THEN "1" ELSE "0", o # "filed", FALSE, <<>>)
             /\ UNCHANGED kcoords
    /\ UNCHANGED <<file, kresult, coordinates, cpc, parserVars>>

MarkRecord(r) ==
    [k \in DOMAIN r \cup {"captured"} |-> IF k = "captured" THEN TRUE ELSE r[k]]

MarkList(l) == [i \in DOMAIN l |-> MarkRecord(l[i])]

\* Mutant: only the pools list is written back.
MarkCaptured_PoolsOnly(c) ==
    [c EXCEPT !.pools = MarkList(c.pools),
              !.no_pools = <<>>,
              !.metadata =
                  [k \in DOMAIN c.metadata \cup {"last_capture", "capture_completed"} |->
                      CASE k = "last_capture" -> Timestamp
                        [] k = "capture_completed" -> TRUE
                        [] OTHER -> c.metadata[k]]]

\* the document update_capture_status builds from the one it read
MarkCaptured(c) ==
    [c EXCEPT !.pools = MarkList(c.pools),
              !.no_pools = MarkList(c.no_pools),
              !.metadata =
                  [k \in DOMAIN c.metadata \cup {"last_capture", "capture_completed"} |->
                      CASE k = "last_capture" -> Timestamp
                        [] k = "capture_completed" -> TRUE
                        [] OTHER -> c.metadata[k]]]

\* update_capture_status: the file afterwards.  Every exception (the file
\* cannot be read or parsed, a key is missing, the write fails) is caught.
UpdatedFile(f, fault) ==
    IF f.kind # "json" THEN f
    ELSE IF ~HasKey(f.doc, "pools") \/ ~HasKey(f.doc, "no_pools")
            \/ ~HasKey(f.doc, "metadata") THEN f
    ELSE SavedFile(f, MarkCaptured(json_load(f.doc)), fault)

\* update_capture_status and mass_capture_all's return (lines 136-142)
UpdateCaptureStatus ==
    /\ kphase = "update"
    /\ \E fault \in Faults :
        /\ file' = UpdatedFile(file, fault)
        /\ outcome' = Call("update_capture_status", "None",
                           file' = file, file' # file /\ fault = "none", <<>>)
    /\ kresult' = Returned([pools |-> kcount.pools, no_pools |-> kcount.no_pools,
                            total |-> kcount.pools + kcount.no_pools])
    /\ kphase' = "report"
    /\ UNCHANGED <<kcoords, ki, kcount, requests, coordinates, cpc, parserVars>>

\* update_capture_status, lines 146-158, as a step of its own: the file is
\* read and parsed and the document marked in memory (kcoords holds the
\* method's local `coordinates`); an exception is caught, nothing is
\* written and mass_capture_all returns its counts.
UpdateRead ==
    /\ kphase = "update"
    /\ IF  /\ file.kind = "json"
           /\ HasKey(file.doc, "pools") /\ HasKey(file.doc, "no_pools")
           /\ HasKey(file.doc, "metadata")
       THEN /\ kcoords' = MarkCaptured(json_load(file.doc))
            /\ kphase' = "write"
            /\ kresult' = kresult
            /\ outcome' = Call("update_capture_status", "None", FALSE, FALSE, <<>>)
       ELSE /\ kcoords' = kcoords
            /\ kphase' = "report"
            /\ kresult' = Returned([pools |-> kcount.pools, no_pools |-> kcount.no_pools,
                                    total |-> kcount.pools + kcount.no_pools])
            /\ outcome' = Call("update_capture_status", "None", TRUE, FALSE, <<>>)
    /\ UNCHANGED <<file, ki, kcount, requests, coordinates, cpc, parserVars>>

\* update_capture_status, lines 160-166: the marked document replaces the
\* file's content; then mass_capture_all returns its counts (lines 138-142).
UpdateWrite ==
    /\ kphase = "write"
    /\ \E fault \in Faults :
        /\ file' = SavedFile(file, kcoords, fault)
        /\ outcome' = Call("update_capture_status", "None",
                           ~Wrote(file, fault), Wrote(file, fault), <<>>)
    /\ kresult' = Returned([pools |-> kcount.pools, no_pools |-> kcount.no_pools,
                            total |-> kcount.pools + kcount.no_pools])
    /\ kphase' = "report"
    /\ UNCHANGED <<kcoords, ki, kcount, requests, coordinates, cpc, parserVars>>

\* main, lines 279-283: the three counts of `results` are printed; a
\* missing key raises KeyError, which ends the script.
ReportResults ==
    /\ kphase = "report"
    /\ outcome' = Call("main",
                       IF  /\ HasKey(kresult.value, "total")
                           /\ HasKey(kresult.value, "pools")
                           /\ HasKey(kresult.value, "no_pools")
                       THEN "None" ELSE "KeyError",
                       FALSE, FALSE, <<>>)
    /\ kphase' = "idle"
    /\ kresult' = NoResult
    /\ kcoords' = NoCoords
    /\ ki' = 1
    /\ kcount' = ZeroCount
    /\ requests' = <<>>
    /\ UNCHANGED <<file, coordinates, cpc, parserVars>>

(***************************************************************************)
(* The files the scripts may find on disk when they start: none, one that  *)
(* is not JSON, and JSON documents written by hand or by an earlier        *)
(* version (a key missing, counts that do not match the lists).            *)
(***************************************************************************)
RecA == [lat |-> 191738 * 180, lon |-> (0 - 961342) * 180,
         description |-> <<"A">>, captured |-> "false"]

InitialFiles ==
    { Absent,
      Unreadable,
      Garbage,
      JsonFile(json_dump(EmptyStore)),
      JsonFile([pools |-> <<RecA>>]),
      JsonFile([pools |-> <<>>, no_pools |-> <<>>]),
      JsonFile([pools |-> <<RecA>>, no_pools |-> <<>>,
                metadata |-> [total_pools |-> 0, total_no_pools |-> 0,
                              last_updated |-> ""]]) }

Init ==
    /\ file \in InitialFiles
    /\ coordinates = EmptyStore
    /\ cpc = "menu"
    /\ outcome = NoCall
    /\ kphase = "idle"
    /\ kcoords = NoCoords
    /\ ki = 1
    /\ kcount = ZeroCount
    /\ requests = <<>>
    /\ kresult = NoResult
    /\ user_input = <<>>
    /\ typed = <<>>
    /\ result = NoInput

\* The two scripts run one at a time: a collector session starts only
\* while no capture run is under way, and a capture run only from the menu.
Next ==
    \/ (kphase = "idle" /\ StartSession)
    \/ AddCoordinate
    \/ Guardar
    \/ Fin
    \/ EndSession
    \/ (cpc = "menu" /\ StartCapture)
    \/ CaptureRecord
    \/ UpdateCaptureStatus
    \/ ReportResults

Spec == Init /\ [][Next]_vars

(***************************************************************************)
(* One collector session and one capture run started from two terminals on *)
(* the same coordinates.json: nothing orders their steps, and              *)
(* update_capture_status reads the file and writes it in two steps.        *)
(***************************************************************************)
ConcFiles ==
    { Absent,
      JsonFile(json_dump(update_metadata([EmptyStore EXCEPT !.pools = <<LoadRecord(RecA)>>]))) }

InitConc ==
    /\ file \in ConcFiles
    /\ coordinates = EmptyStore
    /\ cpc = "menu"
    /\ outcome = NoCall
    /\ kphase = "idle"
    /\ kcoords = NoCoords
    /\ ki = 1
    /\ kcount = ZeroCount
    /\ requests = <<>>
    /\ kresult = NoResult
    /\ user_input = <<>>
    /\ typed = <<>>
    /\ result = NoInput

NextConc ==
    \/ StartSession
    \/ AddCoordinate
    \/ Guardar
    \/ Fin
    \/ StartCapture
    \/ CaptureRecord
    \/ UpdateRead
    \/ UpdateWrite

SpecConc == InitConc /\ [][NextConc]_vars

(***************************************************************************)
(* The parser on its own: one line typed at the prompt of                  *)
(* interactive_collector, parsed and, when it parses, added to a fresh     *)
(* store.                                                                  *)
(***************************************************************************)
\* the text of one DMS token as Google Earth writes it
DmsToken(p, h) ==
    IntToDigits(p.d) \o <<"deg">> \o ZeroPad(IntToDigits(p.m), 2) \o <<"'">>
        \o ZeroPad(IntToDigits(p.s), 2) \o <<"\"">> \o <<h>>

DmsText(p1, h1, p2, h2) == DmsToken(p1, h1) \o <<" ">> \o DmsToken(p2, h2)

DmsLatParts == {[d |-> 19, m |-> 11, s |-> 19], [d |-> 0, m |-> 0, s |-> 0],
                [d |-> 91, m |-> 75, s |-> 99]}
DmsLonParts == {[d |-> 96, m |-> 7, s |-> 32], [d |-> 181, m |-> 0, s |-> 1]}

DmsInputs ==
    {DmsText(p1, h1, p2, h2) :
        p1 \in DmsLatParts, h1 \in {"N", "S"}, p2 \in DmsLonParts, h2 \in {"E", "W"}}

LatTexts == {<<"1","9",".","1","7","3","8">>, <<"1","9",".","1","7","3","8","4">>, <<"1","9",".","5">>, <<"9","1">>, <<"a","b","c">>}
LonTexts == {<<"-","9","6",".","1","3","4","2">>, <<"-","9","6",".","1","3","4","1","6">>, <<" ","-","9","6">>, <<"2","0","0",".","5">>}
Tails == {<<>>,
          <<",","p","o","o","l">>,
          <<",","p","o","o","l",",","C","a","s","a","1">>,
          <<","," ","N"," ",",">>,
          <<",","c","a","s","t","l","e">>}

DecimalInputs ==
    {la \o <<",">> \o lo \o t : la \in LatTexts, lo \in LonTexts, t \in Tails}

OtherInputs ==
    {<<"1","9","deg","1","1","'","1","9","\"","E"," ","9","6","deg","0","7","'","3","2","\"","W">>,
     <<"1","9","deg","1","1","'","1","9","\"","N">>,
     <<"1","9","deg","1","1","'","1","9","\"","N","x"," ","9","6","deg","0","7","'","3","2","\"","W","y">>,
     <<"1","9","deg","1","1","'","1","9","\"","N"," ","9","6","deg","0","7","'","3","2","\"","N">>,
     <<"1","9",".","1","7","3","8">>,
     <<"1","9"," ","1","1","'","1","9","\"","N"," ","9","6","deg","0","7","'","3","2","\"","W">>}

ParseInputs == DmsInputs \cup DecimalInputs \cup OtherInputs

TypedAnswers ==
    {[coord_type |-> c, description |-> d] :
        c \in {<<"n","o","_","p","o","o","l">>, <<"c","a","s","t","l","e">>},
        d \in {<<>>, <<"C","a","s","a","1">>}}

InitParse ==
    /\ user_input \in ParseInputs
    /\ typed \in TypedAnswers
    /\ result = NoInput
    /\ cpc = "prompt"
    /\ file = Absent
    /\ coordinates = EmptyStore
    /\ outcome = NoCall
    /\ kphase = "idle"
    /\ kcoords = NoCoords
    /\ ki = 1
    /\ kcount = ZeroCount
    /\ requests = <<>>
    /\ kresult = NoResult

\* result = collector.parse_coordinate_input(user_input)
ParseLine ==
    /\ cpc = "prompt"
    /\ result' = parse_coordinate_input(user_input, typed)
    /\ outcome' = Call("parse_coordinate_input",
                       IF result'.ok THEN "tuple" ELSE "None", ~result'.ok, FALSE, <<>>)
    /\ cpc' = "parsed"
    /\ UNCHANGED <<file, coordinates, captureVars, user_input, typed>>

\* if result: collector.add_coordinate(lat, lon, coord_type, description)
AddParsed ==
    /\ cpc = "parsed"
    /\ result.ok
    /\ LET r == AddResult(coordinates, result.lat, result.lon, result.coord_type,
                          result.description)
       IN  /\ coordinates' = r.store
           /\ outcome' = Call("add_coordinate", r.ret, r.ret = "False", FALSE,
                              result.coord_type)
    /\ cpc' = "session"
    /\ UNCHANGED <<file, captureVars, parserVars>>

\* a line that did not parse: the loop goes on with the store untouched
RejectLine ==
    /\ cpc = "parsed"
    /\ ~result.ok
    /\ cpc' = "session"
    /\ UNCHANGED <<file, coordinates, outcome, captureVars, parserVars>>

NextParse == ParseLine \/ AddParsed \/ RejectLine

SpecParse == InitParse /\ [][NextParse]_vars

(***************************************************************************)
(* Properties of the model.                                                *)
(***************************************************************************)
Min(a, b) == IF a < b THEN a ELSE b
Range(q) == {q[i] : i \in DOMAIN q}

\* the records of list l in the file, none when the file holds no such list
FileList(f, l) == IF f.kind = "json" /\ HasKey(f.doc, l) THEN f.doc[l] ELSE <<>>

SaveWrote == outcome.call = "save_coordinates" /\ outcome.wrote
SaveFailed == outcome.call = "save_coordinates" /\ ~outcome.wrote

\* C1: right after a save_coordinates call that wrote the file, the file's
\* metadata.total_pools is the length of pools and metadata.total_no_pools
\* the length of no_pools (stated for the files that hold all three keys).
C1_SavedCountsMatch ==
    (SaveWrote /\ HasKey(file.doc, "pools") /\ HasKey(file.doc, "no_pools")
        /\ HasKey(file.doc, "metadata"))
    => /\ file.doc.metadata.total_pools = Len(file.doc.pools)
       /\ file.doc.metadata.total_no_pools = Len(file.doc.no_pools)

ValidTokens ==
    {<<"p","o","o","l">>, <<"p","i","s","c","i","n","a">>, <<"p">>,
     <<"n","o","_","p","o","o","l">>, <<"n","o","_","p","i","s","c","i","n","a">>, <<"n">>}

\* C2: an add_coordinate call whose category token, lower-cased, is none of
\* pool, piscina, p, no_pool, no_piscina, n returns False and leaves the
\* whole store (both lists and the metadata) as it was.
C2_InvalidTokenRejected ==
    [][(outcome'.call = "add_coordinate" /\ lower(outcome'.arg) \notin ValidTokens)
        => (outcome'.ret = "False" /\ coordinates' = coordinates)]_vars

C2_Witness ==
    /\ outcome.call = "add_coordinate"
    /\ outcome.arg = <<"p","o","o","l","s">>
    /\ outcome.ret = "False"
    /\ NumRecords(coordinates) > 0

\* C3: with collector sessions and capture runs one at a time, a captured
\* flag in the file never goes from true to false, and it goes from false to
\* true only in update_capture_status, for a record the run loaded and
\* requested an image for.
C3_CapturedOnlyRises ==
    [][\A l \in {"pools", "no_pools"} :
        \A i \in 1..Min(Len(FileList(file, l)), Len(FileList(file', l))) :
            LET before == FileList(file, l)[i].captured
                after == FileList(file', l)[i].captured
            IN  /\ before = "true" => after = "true"
                /\ (before = "false" /\ after = "true")
                    => /\ kphase = "update"
                       /\ outcome'.call = "update_capture_status"
                       /\ [list |-> l, index |-> i] \in Range(requests)
                       /\ i <= Len(kcoords[l])
                       /\ kcoords[l][i] = LoadRecord(FileList(file, l)[i])]_vars

C3_Witness ==
    /\ SaveWrote
    /\ Len(FileList(file, "pools")) = 2
    /\ file.doc.pools[1].captured = "true"
    /\ file.doc.pools[2].captured = "false"

C5_LoadFailureGivesEmptyStore ==
    (outcome.call = "load_existing" /\ outcome.failed) => coordinates = EmptyStore

\* C6: a save_coordinates call that fails leaves the in-memory store as it
\* was, and the next save_coordinates call, when it succeeds, puts every
\* record of that store in the file.
C6_FailedSaveKeepsStore ==
    [][/\ (outcome'.call = "save_coordinates" /\ ~outcome'.wrote)
            => coordinates' = coordinates
       /\ (SaveFailed /\ outcome'.call = "save_coordinates" /\ outcome'.wrote)
            => /\ file'.kind = "json"
               /\ json_load(file'.doc) = coordinates]_vars

C6_Witness ==
    /\ SaveWrote
    /\ outcome.prev.call = "save_coordinates"
    /\ ~outcome.prev.wrote
    /\ Len(FileList(file, "pools")) + Len(FileList(file, "no_pools")) = 2

\* C7: a failed save is surfaced: what save_coordinates gives its caller
\* differs from what a successful save gives, and the session does not go on
\* to report completion.
C7_SaveFailureSurfaced ==
    SaveFailed => (outcome.ret # SaveReturn("none") /\ cpc # "completed")

Magnitude(p) == (3600 * p.d + 60 * p.m + p.s) * (UnitsPerDegree \div 3600)

\* C8: for a DMS input D1 M1 S1 H1, D2 M2 S2 H2 of the right form,
\* convert_dms_to_decimal gives |lat| = D1 + M1/60 + S1/3600 and
\* |lon| = D2 + M2/60 + S2/3600, lat negative iff H1 = S and lon negative
\* iff H2 = W (for magnitudes other than zero).
C8_DmsValue ==
    \A p1 \in DmsLatParts, p2 \in DmsLonParts, h1 \in {"N", "S"}, h2 \in {"E", "W"} :
        (cpc # "prompt" /\ user_input = DmsText(p1, h1, p2, h2))
        => /\ result.ok
           /\ Abs(result.lat) = Magnitude(p1)
           /\ Abs(result.lon) = Magnitude(p2)
           /\ Magnitude(p1) # 0 => (result.lat < 0 <=> h1 = "S")
           /\ Magnitude(p2) # 0 => (result.lon < 0 <=> h2 = "W")

C8_Witness ==
    /\ cpc # "prompt"
    /\ user_input = DmsText([d |-> 19, m |-> 11, s |-> 19], "S",
                            [d |-> 96, m |-> 7, s |-> 32], "W")
    /\ result.ok
    /\ result.lat = 0 - 34539500
    /\ result.lon = 0 - 173026000

\* C9: every record the parser and add_coordinate put into the store has
\* its latitude in [-90, 90] and its longitude in [-180, 180].
C9_RecordsInRange ==
    \A l \in {"pools", "no_pools"} : \A i \in DOMAIN coordinates[l] :
        /\ Abs(coordinates[l][i].lat) <= 90 * UnitsPerDegree
        /\ Abs(coordinates[l][i].lon) <= 180 * UnitsPerDegree

\* whether the line and the answers at the prompts supply no description
NoDescriptionSupplied ==
    IF IsDmsInput(user_input) \/ Len(SplitOn(user_input, ",")) = 2
    THEN strip(typed.description) = <<>>
    ELSE Len(SplitOn(user_input, ",")) = 3

\* C10: when parse_coordinate_input succeeds with no description supplied,
\* the description it returns is Coord_<lat>_<lon> with both rounded to four
\* decimals, whichever form the input had.
C10_DefaultDescriptionRounded ==
    (cpc # "prompt" /\ result.ok /\ NoDescriptionSupplied)
    => result.description = RoundedDescription(result.lat, result.lon)

\* the requests of a whole run over the store c: every pool record, then
\* every no_pool record, in list order
ExpectedRequests(c) ==
    [i \in 1..Len(c.pools) |-> [list |-> "pools", index |-> i]]
    \o [i \in 1..Len(c.no_pools) |-> [list |-> "no_pools", index |-> i]]

\* C11: in a mass_capture_all run over a non-empty store, each step of the
\* loops attempts exactly the next record (pools first, then no_pools, in
\* list order), whatever became of the record before it; no step ends the
\* run before update_capture_status, and update_capture_status is followed
\* by the return of the counts.
C11_EveryRecordAttempted ==
    [][/\ (kphase \in {"pools", "no_pools"} /\ captureVars' # captureVars)
            => /\ kphase' \in {"pools", "no_pools", "update"}
               /\ requests' = SubSeq(ExpectedRequests(kcoords), 1, Len(requests) + 1)
               /\ kphase' = "update" => requests' = ExpectedRequests(kcoords)
       /\ (kphase = "update" /\ captureVars' # captureVars)
            => /\ kphase' = "report"
               /\ kresult' = Returned([pools |-> kcount.pools,
                                       no_pools |-> kcount.no_pools,
                                       total |-> kcount.pools + kcount.no_pools])]_vars

\* C12: an add_coordinate call with a pool token (lower-cased pool, piscina,
\* p) returns True, appends exactly one record {lat, lon, description,
\* captured false} at the end of pools, leaves no_pools and the records
\* already in pools as they were and sets total_pools / total_no_pools to
\* the new list lengths; with a no_pool token (no_pool, no_piscina, n) the
\* same holds with the two lists exchanged.
C12_AddAppendsOneRecord ==
    [][(outcome'.call = "add_coordinate" /\ lower(outcome'.arg) \in ValidTokens)
        => LET pool == lower(outcome'.arg) \in
                           {<<"p","o","o","l">>, <<"p","i","s","c","i","n","a">>, <<"p">>}
               t == IF pool THEN "pools" ELSE "no_pools"
               o == IF pool THEN "no_pools" ELSE "pools"
           IN  /\ outcome'.ret = "True"
               /\ Len(coordinates'[t]) = Len(coordinates[t]) + 1
               /\ SubSeq(coordinates'[t], 1, Len(coordinates[t])) = coordinates[t]
               /\ \E inp \in StoreInputs :
                    coordinates'[t][Len(coordinates'[t])]
                        = [lat |-> inp.lat, lon |-> inp.lon,
                           description |-> inp.description, captured |-> FALSE]
               /\ coordinates'[o] = coordinates[o]
               /\ coordinates'.metadata.total_pools = Len(coordinates'.pools)
               /\ coordinates'.metadata.total_no_pools = Len(coordinates'.no_pools)]_vars

\* a token that is exactly digits deg digits ' digits " and one letter of dirs
ExactDmsToken(tok, dirs) ==
    \E a, b, c \in 1..Len(tok) :
        /\ 1 < a /\ a + 1 < b /\ b + 1 < c /\ c + 1 = Len(tok)
        /\ tok[a] = "deg" /\ tok[b] = "'" /\ tok[c] = "\""
        /\ tok[Len(tok)] \in dirs
        /\ \A i \in (1..(c - 1)) \ {a, b} : tok[i] \in DigitSet

\* a line whose first token is a latitude and whose second is a longitude
WellFormedDms(text) ==
    /\ Len(split(text)) >= 2
    /\ ExactDmsToken(split(text)[1], {"N", "S"})
    /\ ExactDmsToken(split(text)[2], {"E", "W"})

\* C13: a line taken as DMS whose first token is not exactly
\* digits deg digits ' digits " plus N or S, or whose second token is not
\* exactly digits deg digits ' digits " plus E or W (fewer than two tokens,
\* a wrong hemisphere letter, characters after the hemisphere letter), makes
\* convert_dms_to_decimal, and so parse_coordinate_input, return None.
C13_MalformedDmsRejected ==
    (cpc # "prompt" /\ IsDmsInput(user_input) /\ ~WellFormedDms(user_input))
    => (~convert_dms_to_decimal(user_input).ok /\ ~result.ok)

\* A step keeps the file's records: when the file is JSON afterwards, every
\* record it held is still there, in its place, with the same coordinates
\* and description, and captured still true if it was true.
StepKeepsFileRecords ==
    \A l \in {"pools", "no_pools"} : \A i \in DOMAIN FileList(file, l) :
        file'.kind = "json"
        => /\ i <= Len(FileList(file', l))
           /\ FileList(file', l)[i].lat = FileList(file, l)[i].lat
           /\ FileList(file', l)[i].lon = FileList(file, l)[i].lon
           /\ FileList(file', l)[i].description = FileList(file, l)[i].description
           /\ FileList(file, l)[i].captured = "true"
                => FileList(file', l)[i].captured = "true"

C15_ResultAlwaysReportable ==
    /\ kresult.kind = "return"
        => /\ HasKey(kresult.value, "pools")
           /\ HasKey(kresult.value, "no_pools")
           /\ HasKey(kresult.value, "total")
           /\ kresult.value.total = kresult.value.pools + kresult.value.no_pools
           /\ kresult.value.pools <= Len(kcoords.pools)
           /\ kresult.value.no_pools <= Len(kcoords.no_pools)
    /\ outcome.call = "main" => outcome.ret # "KeyError"

====
